---- MODULE Spec2Model ----
(***************************************************************************)
(* OpenF1 strategy dashboard: the data processor (app/data_processor.py),  *)
(* the HTTP client and cached fetchers (app/data_loader.py) and the page   *)
(* script that joins and renders (main.py).                                *)
(*                                                                         *)
(* Three specifications share the definitions below:                       *)
(*   ProcessorSpec  one call of a processor function on a bounded dataset  *)
(*   LoaderSpec     a sequence of calls of the cached fetchers             *)
(*   Spec           re-runs of the page script over the fetch cache        *)
(***************************************************************************)
EXTENDS Integers, Sequences, FiniteSets, TLC

(* ---------------------------------------------------------------------- *)
(* Bounds                                                                  *)
(* ---------------------------------------------------------------------- *)

\* Most rows of a lap, pit-stop or driver dataset handed to a processor.
MaxRows == 3

\* Most rows of a stint dataset handed to process_stints.
MaxStintRows == 2

\* Most calls of the loader's functions in one behaviour of LoaderSpec.
MaxCalls == 3

\* Most runs of the page script in one behaviour of Spec.
MaxRuns == 2

(* ---------------------------------------------------------------------- *)
(* Values                                                                  *)
(* ---------------------------------------------------------------------- *)

\* A cell is absent (None / NaN) or holds one value.
None == <<>>

Some(v) == <<v>>

\* pd.notna on a cell.
NotNa(c) == c # None

\* A Python str is the sequence of its characters.
StartsWith(s, ch) == Len(s) > 0 /\ s[1] = ch

\* str(x): the text of a cell; str(None) is "None".
Str(c) == IF c = None THEN <<"N", "o", "n", "e">> ELSE c[1]

\* What a call gives back: a value, or the exception it raised.
Ok(v) == [ok |-> TRUE, val |-> v, err |-> "-", status |-> 0]

Raise(e) == [ok |-> FALSE, val |-> <<>>, err |-> e, status |-> 0]

\* requests.HTTPError carries the response and its status code.
HTTPError(status) == [ok |-> FALSE, val |-> <<>>, err |-> "HTTPError", status |-> status]

(* ---------------------------------------------------------------------- *)
(* Datasets (pandas DataFrame)                                             *)
(*   cols  the column labels                                               *)
(*   dn    the dtype of column driver_number ("int64", "object" after      *)
(*         astype(str), "-" when there is no such column)                  *)
(*   rows  the rows in order, each carrying its index label idx            *)
(* ---------------------------------------------------------------------- *)

\* pd.DataFrame([]): zero rows, no columns.
EmptyFrame == [cols |-> {}, dn |-> "-", rows |-> <<>>]

\* RangeIndex: row i of the JSON array gets index label i - 1.
Index(json) == [i \in 1..Len(json) |-> [idx |-> i - 1] @@ json[i]]

\* pd.DataFrame(response.json()): columns are the keys of the objects.
DataFrame(json) ==
    IF json = <<>> THEN EmptyFrame
    ELSE [cols |-> UNION {DOMAIN json[i] : i \in 1..Len(json)},
          dn   |-> IF "driver_number" \in DOMAIN json[1] THEN "int64" ELSE "-",
          rows |-> Index(json)]

\* df.empty: an axis of length 0.
IsEmpty(df) == Len(df.rows) = 0 \/ df.cols = {}

\* df[col] raises KeyError when col is no column.
HasCols(df, cs) == cs \subseteq df.cols

(* ---------------------------------------------------------------------- *)
(* sort_values(by=[k1, k2]): pandas sorts several keys with a stable       *)
(* lexsort, ascending.                                                     *)
(* ---------------------------------------------------------------------- *)

SortKey(r, by) == <<r[by[1]], r[by[2]]>>

LexLess(p, q) == p[1] < q[1] \/ (p[1] = q[1] /\ p[2] < q[2])

RECURSIVE InsertUnstable(_, _, _)
InsertUnstable(r, s, by) ==
    IF s = <<>> THEN <<r>>
    ELSE IF ~LexLess(SortKey(Head(s), by), SortKey(r, by)) THEN <<r>> \o s
    ELSE <<Head(s)>> \o InsertUnstable(r, Tail(s), by)

\* r goes behind every row of s whose key is not greater: ties keep their order.
RECURSIVE InsertSorted(_, _, _)
InsertSorted(r, s, by) ==
    IF s = <<>> THEN <<r>>
    ELSE IF LexLess(SortKey(r, by), SortKey(Head(s), by)) THEN <<r>> \o s
    ELSE <<Head(s)>> \o InsertSorted(r, Tail(s), by)

RECURSIVE SortValues(_, _)
SortValues(rows, by) ==
    IF rows = <<>> THEN <<>>
    ELSE InsertSorted(rows[Len(rows)],
                      SortValues(SubSeq(rows, 1, Len(rows) - 1), by), by)

(* ---------------------------------------------------------------------- *)
(* app/data_processor.py                                                   *)
(* A processor call gives [ret, arg]: what it returns (or raises) and the  *)
(* dataset object it was passed, as the call leaves it.                    *)
(* ---------------------------------------------------------------------- *)

Returned(ret, arg) == [ret |-> ret, arg |-> arg]

\* df[df[col].notna()].sort_values(by)
DropNaSort(df, col, by) ==
    [df EXCEPT !.rows = SortValues(SelectSeq(df.rows, LAMBDA r : NotNa(r[col])), by)]

ProcessLapData(df) ==
    IF IsEmpty(df) THEN Returned(Ok(df), df)
    ELSE IF ~HasCols(df, {"lap_duration", "driver_number", "lap_number"})
         THEN Returned(Raise("KeyError"), df)
    ELSE Returned(Ok(DropNaSort(df, "lap_duration",
                                <<"driver_number", "lap_number">>)), df)

ProcessPitStops(df) ==
    IF IsEmpty(df) THEN Returned(Ok(df), df)
    ELSE IF ~HasCols(df, {"pit_duration", "driver_number", "lap_number"})
         THEN Returned(Raise("KeyError"), df)
    ELSE Returned(Ok(DropNaSort(df, "pit_duration",
                                <<"driver_number", "lap_number">>)), df)

\* fillna("Unknown") on one cell.
FillNa(c, v) == IF NotNa(c) THEN c ELSE Some(v)

LapCount_OffByOne(lap_start, lap_end) ==
    IF NotNa(lap_end) /\ NotNa(lap_start) THEN Some(lap_end[1] - lap_start[1])
    ELSE None

\* df["lap_end"] - df["lap_start"] + 1: NaN where either is absent.
LapCount(lap_start, lap_end) ==
    IF NotNa(lap_end) /\ NotNa(lap_start) THEN Some(lap_end[1] - lap_start[1] + 1)
    ELSE None

StintRow(r) ==
    [idx |-> r.idx, driver_number |-> r.driver_number,
     stint_number |-> r.stint_number,
     compound |-> FillNa(r.compound, "Unknown"),
     lap_start |-> r.lap_start, lap_end |-> r.lap_end,
     lap_count |-> LapCount(r.lap_start, r.lap_end)]

StintsBody(df) ==
    IF ~HasCols(df, {"driver_number", "stint_number", "compound",
                     "lap_start", "lap_end"})
    THEN Returned(Raise("KeyError"), df)
    ELSE LET sorted == SortValues(df.rows, <<"driver_number", "stint_number">>)
         IN  Returned(Ok([cols |-> df.cols \cup {"lap_count"},
                          dn   |-> df.dn,
                          rows |-> [i \in 1..Len(sorted) |-> StintRow(sorted[i])]]),
                      df)

ProcessStints_NoGuard(df) == StintsBody(df)

ProcessStints(df) ==
    IF IsEmpty(df) THEN Returned(Ok(df), df) ELSE StintsBody(df)

NormalizeColour_Always(x) == Some(<<"#">> \o Str(x))

\* lambda x: f"#{x}" if not str(x).startswith("#") else x
NormalizeColour(x) ==
    IF ~StartsWith(Str(x), "#") THEN Some(<<"#">> \o Str(x)) ELSE x

\* The dict comprehension over iterrows(): a later row replaces an earlier
\* row's entry for the same acronym.
EmptyMap == [a \in {} |-> <<>>]

Put(m, k, v) == [x \in (DOMAIN m) \cup {k} |-> IF x = k THEN v ELSE m[x]]

RECURSIVE ColorMapOf(_)
ColorMapOf(rows) ==
    IF rows = <<>> THEN EmptyMap
    ELSE LET n    == Len(rows)
             rest == ColorMapOf(SubSeq(rows, 1, n - 1))
         IN  IF NotNa(rows[n].team_colour)
             THEN Put(rest, rows[n].name_acronym, rows[n].team_colour[1])
             ELSE rest

BuildDriverColorMap(driver_df) ==
    IF IsEmpty(driver_df) THEN Returned(Ok(EmptyMap), driver_df)
    ELSE IF ~HasCols(driver_df, {"team_colour", "driver_number", "name_acronym"})
         THEN Returned(Raise("KeyError"), driver_df)
    ELSE LET after == [driver_df EXCEPT
                         !.rows = [i \in 1..Len(driver_df.rows) |->
                                     [driver_df.rows[i] EXCEPT
                                        !.team_colour = NormalizeColour(@)]],
                         !.dn = "object"]
         IN  Returned(Ok(ColorMapOf(after.rows)), after)

(* ---------------------------------------------------------------------- *)
(* The data the API serves                                                 *)
(* ---------------------------------------------------------------------- *)

DriverNumbers == {1, 2}

LapNumbers == {1, 2}

Durations == {None, Some(90)}

Compounds == {None, Some("SOFT")}

Acronyms == {"VER", "HAM"}

Colours == {None, Some(<<"1", "E", "4", "1", "F", "F">>),
            Some(<<"#", "F", "F", "8", "7", "0", "0">>)}

LapObjects ==
    [driver_number : DriverNumbers, lap_number : LapNumbers,
     lap_duration : Durations]

PitObjects ==
    [driver_number : DriverNumbers, lap_number : LapNumbers,
     pit_duration : Durations]

StintObjects ==
    [driver_number : DriverNumbers, stint_number : {1, 2},
     compound : Compounds, lap_start : {None, Some(2)},
     lap_end : {None, Some(5)}]

\* Roster rows: the map is keyed by acronym, whatever the driver number.
DriverObjects ==
    [driver_number : {1}, name_acronym : Acronyms,
     team_colour : Colours]

\* JSON arrays of at most n objects.
Arrays(S, n) == UNION {[1..k -> S] : k \in 0..n}

\* The datasets a processor may be handed: a fetched dataset, or one whose
\* rows were all filtered away (its columns stay).
Frames(S, n) ==
    {DataFrame(a) : a \in Arrays(S, n)}
        \cup {[DataFrame(<<o>>) EXCEPT !.rows = <<>>] : o \in S}

\* main.py:67 hands build_driver_color_map a dataset whose driver_number
\* is already text.
DriverFrames ==
    Frames(DriverObjects, MaxRows)
        \cup {[f EXCEPT !.dn = "object"] :
                 f \in {g \in Frames(DriverObjects, MaxRows) : g.cols # {}}}

(* ---------------------------------------------------------------------- *)
(* app/data_loader.py: fetch_data                                          *)
(* An HTTP response is [status, parses, json]: the status code, whether    *)
(* the body is JSON, and the array it holds.                               *)
(* ---------------------------------------------------------------------- *)

RaisesForStatus_ServerOnly(status) == 500 <= status /\ status < 600

\* Response.raise_for_status(): HTTPError for a 4xx or 5xx status only.
RaisesForStatus(status) == 400 <= status /\ status < 600

\* One GET, raise_for_status(), then pd.DataFrame(response.json()).
FetchData(resp) ==
    IF RaisesForStatus(resp.status) THEN HTTPError(resp.status)
    ELSE IF ~resp.parses THEN Raise("JSONDecodeError")
    ELSE Ok(DataFrame(resp.json))

(* ---------------------------------------------------------------------- *)
(* Shaping done by fetch_meetings and fetch_sessions                       *)
(* ---------------------------------------------------------------------- *)

\* a + b + c on text columns: the text is kept as its parts.
Concat(parts) == parts

\* sort_values(by=col, ascending=False); ties keep their order.
RECURSIVE InsertDescending(_, _, _)
InsertDescending(r, s, col) ==
    IF s = <<>> THEN <<r>>
    ELSE IF r[col] > Head(s)[col] THEN <<r>> \o s
    ELSE <<Head(s)>> \o InsertDescending(r, Tail(s), col)

RECURSIVE SortDescending(_, _)
SortDescending(rows, col) ==
    IF rows = <<>> THEN <<>>
    ELSE InsertDescending(rows[Len(rows)],
                          SortDescending(SubSeq(rows, 1, Len(rows) - 1), col), col)

\* drop_duplicates(): the first of the rows that agree on every column stays.
RECURSIVE DropDuplicates(_, _)
DropDuplicates(rows, cols) ==
    IF rows = <<>> THEN <<>>
    ELSE LET n     == Len(rows)
             front == DropDuplicates(SubSeq(rows, 1, n - 1), cols)
         IN  IF \E i \in 1..Len(front) : \A c \in cols : front[i][c] = rows[n][c]
             THEN front
             ELSE Append(front, rows[n])

\* The body of fetch_meetings, given the response to its GET.
FetchMeetings(resp) ==
    LET got == FetchData(resp)
    IN  IF ~got.ok THEN got
        ELSE IF IsEmpty(got.val) THEN Ok(EmptyFrame)
        ELSE IF ~HasCols(got.val, {"meeting_name", "location", "meeting_key", "year"})
             THEN Raise("KeyError")
        ELSE LET labelled == [i \in 1..Len(got.val.rows) |->
                                [idx         |-> got.val.rows[i].idx,
                                 meeting_key |-> got.val.rows[i].meeting_key,
                                 label       |-> Concat(<<got.val.rows[i].meeting_name,
                                                          " - ",
                                                          got.val.rows[i].location>>),
                                 year        |-> got.val.rows[i].year]]
                 cols     == {"meeting_key", "label", "year"}
             IN  Ok([cols |-> cols, dn |-> "-",
                     rows |-> DropDuplicates(SortDescending(labelled, "meeting_key"),
                                             cols)])

\* The body of fetch_sessions: no df.empty guard before df["session_name"].
FetchSessions(resp) ==
    LET got == FetchData(resp)
    IN  IF ~got.ok THEN got
        ELSE IF ~HasCols(got.val, {"session_name", "date_start", "session_key"})
             THEN Raise("KeyError")
        ELSE LET labelled == [i \in 1..Len(got.val.rows) |->
                                [idx         |-> got.val.rows[i].idx,
                                 session_key |-> got.val.rows[i].session_key,
                                 label       |-> Concat(<<got.val.rows[i].session_name,
                                                          " (",
                                                          got.val.rows[i].date_start,
                                                          ")">>)]]
                 cols     == {"session_key", "label"}
             IN  Ok([cols |-> cols, dn |-> "-",
                     rows |-> DropDuplicates(labelled, cols)])

\* The function a fetcher's decorator wraps.
Endpoint(f) ==
    CASE f = "fetch_meetings" -> "meetings"
      [] f = "fetch_sessions" -> "sessions"
      [] f = "fetch_laps"     -> "laps"
      [] f = "fetch_stints"   -> "stints"
      [] f = "fetch_pit_stop" -> "pit"
      [] f = "fetch_drivers"  -> "drivers"

FetcherBody(f, resp) ==
    CASE f = "fetch_meetings" -> FetchMeetings(resp)
      [] f = "fetch_sessions" -> FetchSessions(resp)
      [] OTHER                -> FetchData(resp)

Fetchers ==
    {"fetch_meetings", "fetch_sessions", "fetch_laps", "fetch_stints",
     "fetch_pit_stop", "fetch_drivers"}

(* ---------------------------------------------------------------------- *)
(* @st.cache_data: results are stored by function and by the type and      *)
(* value of every argument; a hit hands out a copy of the stored value;    *)
(* a call that raises stores nothing.                                      *)
(* ---------------------------------------------------------------------- *)

\* An argument is <<type, text>>: 1 is <<"int", "1">>, "1" is <<"str", "1">>.
CacheKey_ValueOnly(f, args) == <<f, [i \in 1..Len(args) |-> args[i][2]]>>

CacheKey(f, args) == <<f, args>>

\* [ret, gets, cache]: what the call gives, the GETs it issued, the cache after.
CachedCall(store, f, args, resp) ==
    LET k == CacheKey(f, args)
    IN  IF k \in DOMAIN store
        THEN [ret |-> Ok(store[k]), gets |-> 0, cache |-> store]
        ELSE LET got == FetcherBody(f, resp)
             IN  [ret   |-> got,
                  gets  |-> 1,
                  cache |-> IF got.ok THEN Put(store, k, got.val) ELSE store]

(* ---------------------------------------------------------------------- *)
(* What the API serves                                                     *)
(* ---------------------------------------------------------------------- *)

Statuses == {200, 304, 404, 500}

\* The country a circuit lies in.
CountryOf(location) == IF location = "Monaco" THEN "Monaco" ELSE "Italy"

Mtg(k, loc) ==
    [meeting_key |-> k, meeting_name |-> "Grand Prix", location |-> loc,
     country_name |-> CountryOf(loc), year |-> 2024]

Ssn(k) ==
    [session_key |-> k, session_name |-> IF k = 1 THEN "Practice" ELSE "Race",
     date_start |-> "Sunday"]

Lap(d, n, t) == [driver_number |-> d, lap_number |-> n, lap_duration |-> t]

Stint(d, c, s, e) ==
    [driver_number |-> d, stint_number |-> 1, compound |-> c,
     lap_start |-> s, lap_end |-> e]

Pit(d, n, t) == [driver_number |-> d, lap_number |-> n, pit_duration |-> t]

Driver(d, a, c) == [driver_number |-> d, name_acronym |-> a, team_colour |-> c]

\* The JSON arrays an endpoint may answer with: the empty array is a valid
\* answer of every endpoint.
Served(endpoint) ==
    CASE endpoint = "meetings" ->
            {<<>>, <<Mtg(1, "Monaco"), Mtg(2, "Monza"), Mtg(1, "Monaco")>>}
      [] endpoint = "sessions" -> {<<>>, <<Ssn(1)>>, <<Ssn(1), Ssn(2), Ssn(1)>>}
      [] endpoint = "laps" ->
            {<<>>, <<Lap(1, 1, None)>>, <<Lap(2, 1, Some(90)), Lap(1, 1, Some(90))>>}
      [] endpoint = "stints" ->
            {<<>>, <<Stint(1, None, Some(2), Some(5))>>,
             <<Stint(1, Some("SOFT"), None, Some(5))>>}
      [] endpoint = "pit" ->
            {<<>>, <<Pit(1, 1, None)>>, <<Pit(2, 1, Some(90)), Pit(1, 1, Some(90))>>}
      [] endpoint = "drivers" ->
            {<<>>, <<Driver(1, "VER", Some(<<"1", "E", "4", "1", "F", "F">>))>>,
             <<Driver(1, "VER", None),
               Driver(2, "HAM", Some(<<"#", "F", "F", "8", "7", "0", "0">>))>>}

\* A 2xx answer carries a JSON array; the others carry no JSON.
Responses(endpoint) ==
    {[status |-> 200, parses |-> TRUE, json |-> a] : a \in Served(endpoint)}
        \cup {[status |-> s, parses |-> FALSE, json |-> <<>>] : s \in Statuses \ {200}}

\* No GET is issued on a cache hit, so no response is drawn.
NoResponse == [status |-> 0, parses |-> FALSE, json |-> <<>>]

\* The responses the API may give to the GET a cached call issues.
Drawn(store, f, args) ==
    IF CacheKey(f, args) \in DOMAIN store THEN {NoResponse}
    ELSE Responses(Endpoint(f))

\* The arguments a fetcher is called with. Keys differ in value; the year
\* is passed as 2024 or as "2024".
KeyArgs == {<<"int", "1">>, <<"int", "2">>}

ArgsOf(f) ==
    IF f = "fetch_meetings"
    THEN {<<<<"int", "2024">>, <<"str", "Monaco">>>>,
          <<<<"str", "2024">>, <<"str", "Monaco">>>>}
    ELSE {<<a>> : a \in KeyArgs}

(* ---------------------------------------------------------------------- *)
(* main.py: the joins the page script makes before it renders              *)
(* ---------------------------------------------------------------------- *)

\* str(n) for the keys the API serves.
Text(n) == CASE n = 1 -> "1" [] n = 2 -> "2" [] OTHER -> "?"

\* .values[0] of an integer column is a numpy.int64.
Int64Arg(n) == <<"int64", Text(n)>>

\* df["driver_number"] = df["driver_number"].astype(str)
AsTypeStr(frame) ==
    IF ~HasCols(frame, {"driver_number"}) THEN Raise("KeyError")
    ELSE Ok([frame EXCEPT !.dn = "object"])

\* driver_df[["driver_number", "name_acronym"]]
DriverInfo(driver_df) ==
    IF ~HasCols(driver_df, {"driver_number", "name_acronym"}) THEN Raise("KeyError")
    ELSE Ok([cols |-> {"driver_number", "name_acronym"},
             dn   |-> driver_df.dn,
             rows |-> [i \in 1..Len(driver_df.rows) |->
                         [idx           |-> driver_df.rows[i].idx,
                          driver_number |-> driver_df.rows[i].driver_number,
                          name_acronym  |-> driver_df.rows[i].name_acronym]]])

\* The rows a left row joins to: one per roster row with its driver number,
\* or one with an absent acronym when the roster has none.
JoinedRows(l, roster) ==
    LET hits == SelectSeq(roster, LAMBDA r : r.driver_number = l.driver_number)
    IN  IF hits = <<>> THEN <<[name_acronym |-> None] @@ l>>
        ELSE [i \in 1..Len(hits) |-> [name_acronym |-> Some(hits[i].name_acronym)] @@ l]

RECURSIVE MergeRows(_, _)
MergeRows(left, roster) ==
    IF left = <<>> THEN <<>>
    ELSE MergeRows(SubSeq(left, 1, Len(left) - 1), roster)
            \o JoinedRows(left[Len(left)], roster)

\* left.merge(driver_info, on="driver_number", how="left"): left order kept,
\* a fresh RangeIndex.
MergeLeft(left, info) ==
    IF ~HasCols(left, {"driver_number"}) \/ ~HasCols(info, {"driver_number"})
    THEN Raise("KeyError")
    ELSE IF left.dn # info.dn THEN Raise("ValueError")
    ELSE LET rows == MergeRows(left.rows, info.rows)
         IN  Ok([cols |-> left.cols \cup {"name_acronym"},
                 dn   |-> left.dn,
                 rows |-> [i \in 1..Len(rows) |-> [idx |-> i - 1] @@ rows[i]]])

\* x["driver_number"] = x["driver_number"].astype(str); x.merge(driver_info, ...)
\* applied to what a processor returned.
Joined(processed, info) ==
    IF ~processed.ok THEN processed
    ELSE LET typed == AsTypeStr(processed.val)
         IN  IF ~typed.ok THEN typed ELSE MergeLeft(typed.val, info)

\* The first row of rows whose column col holds v (.loc[...].values[0]).
FirstWith(rows, col, v) ==
    rows[CHOOSE i \in 1..Len(rows) :
            /\ rows[i][col] = v
            /\ \A j \in 1..(i - 1) : rows[j][col] # v]

(* ---------------------------------------------------------------------- *)
(* State                                                                   *)
(* ---------------------------------------------------------------------- *)

VARIABLES
    fn,        \* ProcessorSpec: the processor function called
    input,     \* ProcessorSpec: the dataset as it was when passed in
    df,        \* ProcessorSpec: the dataset object passed in, as it is now
    result,    \* ProcessorSpec: what the call returned or raised
    ppc,       \* ProcessorSpec: "ready" before the call, "returned" after
    cache,     \* st.cache_data's store: cache key -> dataset
    call,      \* LoaderSpec: the last call, [f, args]
    answer,    \* LoaderSpec: status of the response to the last call's GET (0: no GET)
    requests,  \* LoaderSpec: GET requests the last call issued
    outcome,   \* LoaderSpec: what the last call returned or raised
    ncalls,    \* LoaderSpec: calls made so far
    completed, \* LoaderSpec: history, <<f, args>> -> what its first successful call returned
    pc,                    \* Spec: where the page script stands
    nruns,                 \* Spec: runs of the page script started so far
    notices,               \* Spec: st.error / st.warning / st.info messages of this run
    error,                 \* Spec: the exception that ended this run
    selected_meeting_key,  \* Spec: main.py:51
    selected_session_key,  \* Spec: main.py:58
    driver_info,           \* Spec: main.py:69
    driver_color_map,      \* Spec: main.py:68
    processed_empty,       \* Spec: processed_df.empty, read again at main.py:114
    handed                 \* Spec: the last dataset handed to a renderer, [chart, df]

procVars == <<fn, input, df, result, ppc>>

loadVars == <<call, answer, requests, outcome, ncalls, completed>>

runVars == <<pc, nruns, notices, error, selected_meeting_key, selected_session_key,
             driver_info, driver_color_map, processed_empty, handed>>

vars == <<fn, input, df, result, ppc, cache, call, answer, requests, outcome,
          ncalls, completed, pc, nruns, notices, error, selected_meeting_key,
          selected_session_key, driver_info, driver_color_map, processed_empty,
          handed>>

\* The variables of the other specifications, at rest.
ProcIdle ==
    /\ fn = "-" /\ input = EmptyFrame /\ df = EmptyFrame
    /\ result = Raise("pending") /\ ppc = "idle"

LoadIdle ==
    /\ call = [f |-> "-", args |-> <<>>] /\ answer = 0 /\ requests = 0
    /\ outcome = Raise("pending") /\ ncalls = 0 /\ completed = EmptyMap

NoChart == [chart |-> "-", df |-> EmptyFrame]

\* The script's variables before a run has bound them.
RunFresh ==
    /\ notices = {} /\ error = Raise("-")
    /\ selected_meeting_key = 0 /\ selected_session_key = 0
    /\ driver_info = EmptyFrame /\ driver_color_map = EmptyMap
    /\ processed_empty = TRUE /\ handed = NoChart

RunIdle == pc = "idle" /\ nruns = 0 /\ RunFresh

(* ---------------------------------------------------------------------- *)
(* ProcessorSpec                                                           *)
(* ---------------------------------------------------------------------- *)

ProcInputs ==
    ({"process_lap_data"} \X Frames(LapObjects, MaxRows))
        \cup ({"process_stints"} \X Frames(StintObjects, MaxStintRows))
        \cup ({"process_pit_stops"} \X Frames(PitObjects, MaxRows))
        \cup ({"build_driver_color_map"} \X DriverFrames)

ProcInit ==
    /\ \E c \in ProcInputs : fn = c[1] /\ input = c[2] /\ df = c[2]
    /\ result = Raise("pending")
    /\ ppc = "ready"
    /\ cache = EmptyMap
    /\ LoadIdle
    /\ RunIdle

Call(name, out) ==
    /\ ppc = "ready"
    /\ fn = name
    /\ result' = out.ret
    /\ df' = out.arg
    /\ ppc' = "returned"
    /\ UNCHANGED <<fn, input, cache, loadVars, runVars>>

CallProcessLapData == Call("process_lap_data", ProcessLapData(df))

CallProcessStints == Call("process_stints", ProcessStints(df))

CallProcessPitStops == Call("process_pit_stops", ProcessPitStops(df))

CallBuildDriverColorMap == Call("build_driver_color_map", BuildDriverColorMap(df))

ProcNext ==
    \/ CallProcessLapData
    \/ CallProcessStints
    \/ CallProcessPitStops
    \/ CallBuildDriverColorMap

ProcessorSpec == ProcInit /\ [][ProcNext]_vars

(* ---------------------------------------------------------------------- *)
(* LoaderSpec: calls of fetch_data and of the cached fetchers              *)
(* ---------------------------------------------------------------------- *)

LoadInit ==
    /\ cache = EmptyMap
    /\ LoadIdle
    /\ ProcIdle
    /\ RunIdle

\* fetch_data("meetings", {"year": ...}) called directly, as main.py:35
\* does: never cached.
CallFetchData ==
    \E resp \in Responses("meetings") :
        /\ ncalls < MaxCalls
        /\ call' = [f |-> "fetch_data", args |-> <<<<"str", "meetings">>>>]
        /\ answer' = resp.status
        /\ requests' = 1
        /\ outcome' = FetchData(resp)
        /\ ncalls' = ncalls + 1
        /\ UNCHANGED <<cache, completed, procVars, runVars>>

CallFetcher(f) ==
    \E args \in ArgsOf(f) : \E resp \in Drawn(cache, f, args) :
        LET c == CachedCall(cache, f, args, resp)
        IN  /\ ncalls < MaxCalls
            /\ call' = [f |-> f, args |-> args]
            /\ answer' = resp.status
            /\ requests' = c.gets
            /\ outcome' = c.ret
            /\ cache' = c.cache
            /\ ncalls' = ncalls + 1
            /\ completed' = IF c.ret.ok /\ <<f, args>> \notin DOMAIN completed
                            THEN Put(completed, <<f, args>>, c.ret.val)
                            ELSE completed
            /\ UNCHANGED <<procVars, runVars>>

CallFetchMeetings == CallFetcher("fetch_meetings")

CallFetchSessions == CallFetcher("fetch_sessions")

CallFetchLaps == CallFetcher("fetch_laps")

CallFetchStints == CallFetcher("fetch_stints")

CallFetchPitStop == CallFetcher("fetch_pit_stop")

CallFetchDrivers == CallFetcher("fetch_drivers")

LoadNext ==
    \/ CallFetchData
    \/ CallFetchMeetings
    \/ CallFetchSessions
    \/ CallFetchLaps
    \/ CallFetchStints
    \/ CallFetchPitStop
    \/ CallFetchDrivers

LoaderSpec == LoadInit /\ [][LoadNext]_vars

(* ---------------------------------------------------------------------- *)
(* Spec: runs of main.py. Every widget change runs the script again from   *)
(* the top; st.cache_data's store outlives the runs.                       *)
(* ---------------------------------------------------------------------- *)

Init ==
    /\ cache = EmptyMap
    /\ RunIdle
    /\ LoadIdle
    /\ ProcIdle

\* An uncaught exception ends the run.
Fail(e) ==
    /\ pc' = "failed"
    /\ error' = e

\* A user interaction starts the script again.
Rerun ==
    /\ pc \in {"idle", "done", "failed", "stopped"}
    /\ nruns < MaxRuns
    /\ pc' = "meetings"
    /\ nruns' = nruns + 1
    /\ notices' = {} /\ error' = Raise("-")
    /\ selected_meeting_key' = 0 /\ selected_session_key' = 0
    /\ driver_info' = EmptyFrame /\ driver_color_map' = EmptyMap
    /\ processed_empty' = TRUE /\ handed' = NoChart
    /\ UNCHANGED <<cache, loadVars, procVars>>

\* main.py:35-53: the year's meetings, the country picked, its first meeting.
StepMeetings ==
    /\ pc = "meetings"
    /\ \E resp \in Responses("meetings") :
          LET all_meetings == FetchData(resp)
          IN  IF ~all_meetings.ok
              THEN /\ Fail(all_meetings)
                   /\ UNCHANGED <<notices, selected_meeting_key>>
              ELSE IF IsEmpty(all_meetings.val)
              THEN /\ notices' = notices \cup {"No meetings found for this year."}
                   /\ pc' = "stopped"
                   /\ UNCHANGED <<error, selected_meeting_key>>
              ELSE \E selected_country \in
                        {all_meetings.val.rows[i].country_name :
                            i \in 1..Len(all_meetings.val.rows)} :
                      LET of_country == SelectSeq(all_meetings.val.rows,
                                           LAMBDA r : r.country_name = selected_country)
                          labelled == [i \in 1..Len(of_country) |->
                                         [label |-> Concat(<<of_country[i].meeting_name,
                                                             " - ",
                                                             of_country[i].location>>)]
                                            @@ of_country[i]]
                          filtered_meetings == SortDescending(labelled, "meeting_key")
                          selected_meeting == filtered_meetings[1].label
                      IN  /\ selected_meeting_key' =
                                FirstWith(filtered_meetings, "label",
                                          selected_meeting).meeting_key
                          /\ pc' = "sessions"
                          /\ UNCHANGED <<notices, error>>
    /\ UNCHANGED <<cache, nruns, selected_session_key, driver_info, driver_color_map,
                   processed_empty, handed, loadVars, procVars>>

\* main.py:54-58: the meeting's sessions, the session picked.
StepSessions ==
    /\ pc = "sessions"
    /\ \E resp \in Drawn(cache, "fetch_sessions", <<Int64Arg(selected_meeting_key)>>) :
          LET c == CachedCall(cache, "fetch_sessions",
                              <<Int64Arg(selected_meeting_key)>>, resp)
          IN  /\ cache' = c.cache
              /\ IF ~c.ret.ok
                 THEN Fail(c.ret) /\ UNCHANGED selected_session_key
                 ELSE IF Len(c.ret.val.rows) = 0
                 THEN Fail(Raise("IndexError")) /\ UNCHANGED selected_session_key
                 ELSE \E selected_session \in
                           {c.ret.val.rows[i].label : i \in 1..Len(c.ret.val.rows)} :
                         /\ selected_session_key' =
                               FirstWith(c.ret.val.rows, "label",
                                         selected_session).session_key
                         /\ pc' = "drivers"
                         /\ UNCHANGED error
    /\ UNCHANGED <<nruns, notices, selected_meeting_key, driver_info, driver_color_map,
                   processed_empty, handed, loadVars, procVars>>

\* main.py:66-69: the roster, its colour map, the columns the charts join.
StepDrivers ==
    /\ pc = "drivers"
    /\ \E resp \in Drawn(cache, "fetch_drivers", <<Int64Arg(selected_session_key)>>) :
          LET c     == CachedCall(cache, "fetch_drivers",
                                  <<Int64Arg(selected_session_key)>>, resp)
              typed == IF c.ret.ok THEN AsTypeStr(c.ret.val) ELSE c.ret
              built == IF typed.ok THEN BuildDriverColorMap(typed.val)
                       ELSE Returned(typed, EmptyFrame)
              info  == IF built.ret.ok THEN DriverInfo(built.arg) ELSE built.ret
          IN  /\ cache' = c.cache
              /\ IF ~info.ok
                 THEN Fail(info) /\ UNCHANGED <<driver_info, driver_color_map>>
                 ELSE /\ driver_color_map' = built.ret.val
                      /\ driver_info' = info.val
                      /\ pc' = "laps"
                      /\ UNCHANGED error
    /\ UNCHANGED <<nruns, notices, selected_meeting_key, selected_session_key,
                   processed_empty, handed, loadVars, procVars>>

\* The processor main.py applies to what a fetcher returned.
ProcessorFor(fetcher, fetched) ==
    CASE fetcher = "fetch_laps"     -> ProcessLapData(fetched)
      [] fetcher = "fetch_stints"   -> ProcessStints(fetched)
      [] fetcher = "fetch_pit_stop" -> ProcessPitStops(fetched)

\* One chart of main.py: fetch, process, join with driver_info, then the
\* renderer, or a warning when the joined dataset is empty.
ChartStep(at, fetcher, renderer, warning, next) ==
    /\ pc = at
    /\ \E resp \in Drawn(cache, fetcher, <<Int64Arg(selected_session_key)>>) :
          LET c      == CachedCall(cache, fetcher,
                                   <<Int64Arg(selected_session_key)>>, resp)
              done   == IF c.ret.ok THEN ProcessorFor(fetcher, c.ret.val).ret
                        ELSE c.ret
              joined == Joined(done, driver_info)
          IN  /\ cache' = c.cache
              /\ IF ~joined.ok
                 THEN Fail(joined) /\ UNCHANGED <<notices, handed, processed_empty>>
                 ELSE /\ IF IsEmpty(joined.val)
                         THEN notices' = notices \cup {warning} /\ UNCHANGED handed
                         ELSE /\ handed' = [chart |-> renderer, df |-> joined.val]
                              /\ UNCHANGED notices
                      /\ processed_empty' = IF at = "laps" THEN IsEmpty(joined.val)
                                            ELSE processed_empty
                      /\ pc' = next
                      /\ UNCHANGED error
    /\ UNCHANGED <<nruns, selected_meeting_key, selected_session_key, driver_info,
                   driver_color_map, loadVars, procVars>>

\* main.py:74-85
StepLaps ==
    ChartStep("laps", "fetch_laps", "plot_lap_times",
              "No lap time data found.", "stints")

\* main.py:89-98
StepStints ==
    ChartStep("stints", "fetch_stints", "plot_tire_strategy",
              "No tire strategy data found.", "pits")

\* main.py:103-112
StepPitStops ==
    ChartStep("pits", "fetch_pit_stop", "plot_pit_stop",
              "No pit stop data found.", "end")

\* main.py:114-115
StepEnd ==
    /\ pc = "end"
    /\ notices' = IF processed_empty
                  THEN notices \cup {"Lap data is not available for this session."}
                  ELSE notices
    /\ pc' = "done"
    /\ UNCHANGED <<cache, nruns, error, selected_meeting_key, selected_session_key,
                   driver_info, driver_color_map, processed_empty, handed,
                   loadVars, procVars>>

Next ==
    \/ Rerun
    \/ StepMeetings
    \/ StepSessions
    \/ StepDrivers
    \/ StepLaps
    \/ StepStints
    \/ StepPitStops
    \/ StepEnd

Spec == Init /\ [][Next]_vars

(* ---------------------------------------------------------------------- *)
(* Properties of the page script (Spec)                                    *)
(* ---------------------------------------------------------------------- *)

\* C8: a run fails only when a fetch fails in the HTTP layer; a fetch that
\* succeeds with zero rows, or a filter that leaves zero rows, never ends
\* the run with an error.
C8_EmptyResultNeverFails ==
    pc = "failed" => error.err \in {"HTTPError", "JSONDecodeError"}

\* C9: every row of a dataset handed to a renderer has a present driver
\* acronym and a present metric: lap duration for plot_lap_times, lap_count
\* and compound for plot_tire_strategy, pit duration for plot_pit_stop.
C9_RenderedRowsResolved ==
    handed.chart # "-" =>
        \A i \in 1..Len(handed.df.rows) :
            LET r == handed.df.rows[i]
            IN  /\ NotNa(r.name_acronym)
                /\ CASE handed.chart = "plot_lap_times" -> NotNa(r.lap_duration)
                     [] handed.chart = "plot_tire_strategy" ->
                            NotNa(r.lap_count) /\ NotNa(r.compound)
                     [] handed.chart = "plot_pit_stop" -> NotNa(r.pit_duration)

(* ---------------------------------------------------------------------- *)
(* Properties of the loader (LoaderSpec)                                   *)
(* ---------------------------------------------------------------------- *)

\* C1: a call of a cached fetcher with the arguments (type and value) of an
\* earlier call of that fetcher that completed successfully returns what
\* that call returned and issues no GET; a call with no such earlier call,
\* so every call whose arguments differ from all earlier ones, issues
\* exactly one GET.
C1_CacheHitOrOneRequest ==
    [][call'.f \in Fetchers =>
          LET k == <<call'.f, call'.args>>
          IN  IF k \in DOMAIN completed
              THEN requests' = 0 /\ outcome' = Ok(completed[k])
              ELSE requests' = 1]_vars

\* A third call repeats the first one's arguments, after a second call with
\* other arguments fetched something else: no GET, the first call's dataset.
C1_Witness ==
    /\ ncalls = 3
    /\ call.f = "fetch_drivers"
    /\ requests = 0
    /\ outcome.ok
    /\ Len(outcome.val.rows) = 1
    /\ <<"fetch_drivers", <<<<"int", "2">>>>>> \in DOMAIN completed
    /\ <<"fetch_drivers", <<<<"int", "1">>>>>> \in DOMAIN completed
    /\ completed[<<"fetch_drivers", <<<<"int", "2">>>>>>]
         # completed[<<"fetch_drivers", <<<<"int", "1">>>>>>]

\* C2 as stated: a GET answered with any status outside 2xx makes the call
\* fail with an HTTP error carrying that status, after exactly one GET.
C2_NonSuccessRaises ==
    (answer # 0 /\ ~(200 <= answer /\ answer < 300)) =>
        outcome = HTTPError(answer) /\ requests = 1

\* C2 as amended: a GET answered with a 4xx or 5xx status makes the call
\* fail with an HTTP error carrying that status, after exactly one GET; a
\* cached fetcher gives that error, not a dataset.
C2_ErrorStatusRaises ==
    (400 <= answer /\ answer < 600) =>
        outcome = HTTPError(answer) /\ ~outcome.ok /\ requests = 1

C2_Witness ==
    /\ call.f = "fetch_sessions"
    /\ answer = 404
    /\ outcome = HTTPError(404)
    /\ requests = 1

(* ---------------------------------------------------------------------- *)
(* Properties of the processor functions (ProcessorSpec)                   *)
(* ---------------------------------------------------------------------- *)

Done(name) == ppc = "returned" /\ fn = name

\* The last row of the input that carries acronym a.
LastRowOf(a) ==
    CHOOSE i \in 1..Len(input.rows) :
        /\ input.rows[i].name_acronym = a
        /\ \A j \in (i + 1)..Len(input.rows) : input.rows[j].name_acronym # a

\* C3: a row whose team colour is absent never produces an entry of the
\* mapping build_driver_color_map returns: every key of the result is the
\* acronym of some input row whose colour is present.
C3_AbsentColourNoEntry ==
    (Done("build_driver_color_map") /\ result.ok) =>
        \A a \in DOMAIN result.val :
            \E i \in 1..Len(input.rows) :
                /\ input.rows[i].name_acronym = a
                /\ NotNa(input.rows[i].team_colour)

\* C4: every value of the mapping build_driver_color_map returns starts
\* with '#'; the value stored for a present colour is the colour itself when
\* it starts with '#', and '#' followed by the colour when it does not.
C4_ValuesCarryHash ==
    (Done("build_driver_color_map") /\ result.ok) =>
        \A a \in DOMAIN result.val :
            LET v == result.val[a]
                c == input.rows[LastRowOf(a)].team_colour
            IN  /\ StartsWith(v, "#")
                /\ NotNa(c) =>
                     v = IF StartsWith(c[1], "#") THEN c[1] ELSE <<"#">> \o c[1]

C4_Witness ==
    /\ Done("build_driver_color_map")
    /\ result.ok
    /\ DOMAIN result.val = {"VER", "HAM"}
    /\ result.val["VER"] = <<"#", "1", "E", "4", "1", "F", "F">>
    /\ result.val["HAM"] = <<"#", "F", "F", "8", "7", "0", "0">>

\* C5: the output of process_lap_data (process_pit_stops) is exactly the
\* input rows whose lap (pit) duration is present, each once, in ascending
\* (driver number, lap number) order, ties in their input order.
C5_FilteredStableSorted ==
    (ppc = "returned" /\ fn \in {"process_lap_data", "process_pit_stops"}) =>
        /\ result.ok
        /\ LET col  == IF fn = "process_lap_data" THEN "lap_duration"
                       ELSE "pit_duration"
               by   == <<"driver_number", "lap_number">>
               in   == input.rows
               out  == result.val.rows
               kept == {i \in 1..Len(in) : NotNa(in[i][col])}
           IN  /\ Len(out) = Cardinality(kept)
               /\ {out[j].idx + 1 : j \in 1..Len(out)} = kept
               /\ \A j \in 1..Len(out) : out[j] = in[out[j].idx + 1]
               /\ \A j, k \in 1..Len(out) :
                     j < k =>
                        \/ LexLess(SortKey(out[j], by), SortKey(out[k], by))
                        \/ /\ SortKey(out[j], by) = SortKey(out[k], by)
                           /\ out[j].idx < out[k].idx

\* Three rows: one dropped for its absent duration, the other two swapped.
C5_Witness ==
    /\ Done("process_lap_data")
    /\ result.ok
    /\ Len(input.rows) = 3
    /\ Len(result.val.rows) = 2
    /\ result.val.rows[1].idx > result.val.rows[2].idx

\* C6: in every row of the output of process_stints, lap_count is
\* lap_end - lap_start + 1 (absent when either is), and the compound is
\* present: "Unknown" when the input row's compound was absent, the input
\* row's compound otherwise.
C6_LapCountAndCompound ==
    (Done("process_stints") /\ result.ok) =>
        \A j \in 1..Len(result.val.rows) :
            LET r  == result.val.rows[j]
                r0 == input.rows[r.idx + 1]
            IN  /\ NotNa(r.compound)
                /\ r.compound = IF r0.compound = None THEN Some("Unknown")
                                ELSE r0.compound
                /\ (NotNa(r.lap_start) /\ NotNa(r.lap_end)) =>
                      r.lap_count = Some(r.lap_end[1] - r.lap_start[1] + 1)
                /\ (r.lap_start = None \/ r.lap_end = None) =>
                      r.lap_count = None

C6_Witness ==
    /\ Done("process_stints")
    /\ result.ok
    /\ \E j \in 1..Len(result.val.rows) :
          /\ input.rows[result.val.rows[j].idx + 1].compound = None
          /\ result.val.rows[j].lap_count = Some(4)

\* C7: every processor function returns without raising on a dataset of
\* zero rows: the dataset functions return zero rows, build_driver_color_map
\* an empty mapping.
C7_TotalOnEmpty ==
    (ppc = "returned" /\ Len(input.rows) = 0) =>
        /\ result.ok
        /\ IF fn = "build_driver_color_map" THEN result.val = EmptyMap
           ELSE Len(result.val.rows) = 0

C7_Witness ==
    /\ Done("process_stints")
    /\ input = EmptyFrame
    /\ result.ok

\* C10: a processor call on a non-empty dataset leaves the dataset passed
\* in with the rows, columns and values it had before the call.
C10_InputUnchanged ==
    (ppc = "returned" /\ ~IsEmpty(input)) => df = input

====
